---- MODULE Spec2Model ----
(***************************************************************************)
(* Model of the IKEv2 public key authenticator                             *)
(* (src/libcharon/sa/ikev2/authenticators/pubkey_authenticator.c).         *)
(*                                                                         *)
(* One authenticator is constructed for one role (builder or verifier) and *)
(* its build() or process() method is called once.  The collaborators the  *)
(* file only calls (keymat, credential manager, key objects, ASN.1 and     *)
(* chunk helpers of libstrongswan) are modelled at their interface.        *)
(***************************************************************************)
EXTENDS Integers, Sequences, FiniteSets, TLC

(***************************************************************************)
(* Bounds of the model.                                                    *)
(***************************************************************************)
\* number of public keys the credential store knows for the peer identity
MaxKeys == 3
\* longest list of rules in the local auth configuration
MaxCfg == 2

(***************************************************************************)
(* Generic helpers on sequences.                                           *)
(***************************************************************************)
\* all sequences without repetition of elements of S, up to length n
RECURSIVE InjSeqs(_, _)
InjSeqs(S, n) ==
    IF n = 0 THEN {<<>>}
    ELSE LET shorter == InjSeqs(S, n - 1)
             longer == {Append(s, x) : s \in shorter, x \in S}
         IN  shorter \cup {s \in longer :
                              \A i, j \in 1..Len(s) : i # j => s[i] # s[j]}

\* all sequences of elements of S, up to length n
RECURSIVE SeqsUpTo(_, _)
SeqsUpTo(S, n) ==
    IF n = 0 THEN {<<>>}
    ELSE LET shorter == SeqsUpTo(S, n - 1)
         IN  shorter \cup {Append(s, x) : s \in shorter, x \in S}

(***************************************************************************)
(* Enumerations of libstrongswan used by the authenticator.                *)
(***************************************************************************)
KeyTypes == {"KEY_RSA", "KEY_ECDSA", "KEY_ED25519", "KEY_ANY"}

Hashes == {"HASH_SHA1", "HASH_SHA256", "HASH_SHA384", "HASH_SHA512",
           "HASH_IDENTITY", "HASH_UNKNOWN"}

Schemes == {"SIGN_UNKNOWN",
            "SIGN_RSA_EMSA_PKCS1_SHA1",
            "SIGN_RSA_EMSA_PKCS1_SHA2_256",
            "SIGN_RSA_EMSA_PKCS1_SHA2_384",
            "SIGN_RSA_EMSA_PKCS1_SHA2_512",
            "SIGN_RSA_EMSA_PSS",
            "SIGN_ECDSA_WITH_SHA256_DER",
            "SIGN_ECDSA_WITH_SHA384_DER",
            "SIGN_ECDSA_WITH_SHA512_DER",
            "SIGN_ECDSA_256", "SIGN_ECDSA_384", "SIGN_ECDSA_521",
            "SIGN_ED25519"}

\* auth_method_t values that can appear in the tag byte of an AUTH payload
AuthMethods == {"AUTH_RSA", "AUTH_PSK", "AUTH_DSS", "AUTH_ECDSA_256",
                "AUTH_ECDSA_384", "AUTH_ECDSA_521", "AUTH_GSPM", "AUTH_NULL",
                "AUTH_DS"}

\* a NULL params pointer
NoParams == <<>>

\* rsa_pss_params_t: hash, MGF1 hash, salt length
HashSize(hash) ==
    CASE hash = "HASH_SHA1" -> 20
      [] hash = "HASH_SHA256" -> 32
      [] hash = "HASH_SHA384" -> 48
      [] hash = "HASH_SHA512" -> 64
      [] OTHER -> 0

PssParams(hash) == <<hash, hash, HashSize(hash)>>

\* signature_params_t
Params(scheme, params) == [scheme |-> scheme, params |-> params]

\* signature_params_clone(): a deep copy, equal to the original
signature_params_clone(p) == [scheme |-> p.scheme, params |-> p.params]

key_type_from_signature_scheme(scheme) ==
    CASE scheme \in {"SIGN_RSA_EMSA_PKCS1_SHA1", "SIGN_RSA_EMSA_PKCS1_SHA2_256",
                     "SIGN_RSA_EMSA_PKCS1_SHA2_384",
                     "SIGN_RSA_EMSA_PKCS1_SHA2_512",
                     "SIGN_RSA_EMSA_PSS"} -> "KEY_RSA"
      [] scheme \in {"SIGN_ECDSA_WITH_SHA256_DER", "SIGN_ECDSA_WITH_SHA384_DER",
                     "SIGN_ECDSA_WITH_SHA512_DER", "SIGN_ECDSA_256",
                     "SIGN_ECDSA_384", "SIGN_ECDSA_521"} -> "KEY_ECDSA"
      [] scheme = "SIGN_ED25519" -> "KEY_ED25519"
      [] OTHER -> "KEY_ANY"

hasher_from_signature_scheme(scheme, params) ==
    CASE scheme = "SIGN_RSA_EMSA_PKCS1_SHA1" -> "HASH_SHA1"
      [] scheme \in {"SIGN_RSA_EMSA_PKCS1_SHA2_256",
                     "SIGN_ECDSA_WITH_SHA256_DER", "SIGN_ECDSA_256"}
            -> "HASH_SHA256"
      [] scheme \in {"SIGN_RSA_EMSA_PKCS1_SHA2_384",
                     "SIGN_ECDSA_WITH_SHA384_DER", "SIGN_ECDSA_384"}
            -> "HASH_SHA384"
      [] scheme \in {"SIGN_RSA_EMSA_PKCS1_SHA2_512",
                     "SIGN_ECDSA_WITH_SHA512_DER", "SIGN_ECDSA_521"}
            -> "HASH_SHA512"
      [] scheme = "SIGN_RSA_EMSA_PSS"
            -> IF params = NoParams THEN "HASH_UNKNOWN" ELSE params[1]
      [] scheme = "SIGN_ED25519" -> "HASH_IDENTITY"
      [] OTHER -> "HASH_UNKNOWN"

\* the scheme table of signature_schemes_for_key(): key type, largest key
\* size the entry applies to (0: any size) and the scheme
scheme_map ==
    << <<"KEY_RSA", 3072, Params("SIGN_RSA_EMSA_PSS", PssParams("HASH_SHA256"))>>,
       <<"KEY_RSA", 7680, Params("SIGN_RSA_EMSA_PSS", PssParams("HASH_SHA384"))>>,
       <<"KEY_RSA", 0, Params("SIGN_RSA_EMSA_PSS", PssParams("HASH_SHA512"))>>,
       <<"KEY_RSA", 3072, Params("SIGN_RSA_EMSA_PKCS1_SHA2_256", NoParams)>>,
       <<"KEY_RSA", 7680, Params("SIGN_RSA_EMSA_PKCS1_SHA2_384", NoParams)>>,
       <<"KEY_RSA", 0, Params("SIGN_RSA_EMSA_PKCS1_SHA2_512", NoParams)>>,
       <<"KEY_ECDSA", 256, Params("SIGN_ECDSA_WITH_SHA256_DER", NoParams)>>,
       <<"KEY_ECDSA", 384, Params("SIGN_ECDSA_WITH_SHA384_DER", NoParams)>>,
       <<"KEY_ECDSA", 0, Params("SIGN_ECDSA_WITH_SHA512_DER", NoParams)>>,
       <<"KEY_ED25519", 0, Params("SIGN_ED25519", NoParams)>> >>

RECURSIVE schemes_from(_, _, _)
schemes_from(i, type, size) ==
    IF i > Len(scheme_map) THEN <<>>
    ELSE (IF scheme_map[i][1] = type
             /\ (size <= scheme_map[i][2] \/ scheme_map[i][2] = 0)
          THEN <<scheme_map[i][3]>> ELSE <<>>)
            \o schemes_from(i + 1, type, size)

\* the schemes the enumerator of signature_schemes_for_key() yields, in order
signature_schemes_for_key(type, size) == schemes_from(1, type, size)

(***************************************************************************)
(* Chunks are sequences of bytes.  ASN.1 objects are tag, one length byte  *)
(* and content; the body of an OID is one byte naming the algorithm.       *)
(***************************************************************************)
\* chunk_skip(): the chunk without its first n bytes, empty if it is no longer
chunk_skip(chunk, n) ==
    IF Len(chunk) > n THEN SubSeq(chunk, n + 1, Len(chunk)) ELSE <<>>

ASN1_INTEGER == 2
ASN1_NULL == 5
ASN1_OID == 6
ASN1_SEQUENCE == 48
ASN1_INVALID == 256

Oids == {"OID_SHA1_WITH_RSA", "OID_SHA256_WITH_RSA", "OID_SHA384_WITH_RSA",
         "OID_SHA512_WITH_RSA", "OID_RSASSA_PSS", "OID_ECDSA_WITH_SHA256",
         "OID_ECDSA_WITH_SHA384", "OID_ECDSA_WITH_SHA512", "OID_ED25519",
         "OID_SHA256", "OID_SHA384", "OID_SHA512", "OID_SHA1"}

\* the byte standing for the body of a known OID
OidByte(oid) ==
    CASE oid = "OID_SHA1_WITH_RSA" -> 11
      [] oid = "OID_SHA256_WITH_RSA" -> 12
      [] oid = "OID_SHA384_WITH_RSA" -> 13
      [] oid = "OID_SHA512_WITH_RSA" -> 14
      [] oid = "OID_RSASSA_PSS" -> 15
      [] oid = "OID_ECDSA_WITH_SHA256" -> 16
      [] oid = "OID_ECDSA_WITH_SHA384" -> 17
      [] oid = "OID_ECDSA_WITH_SHA512" -> 18
      [] oid = "OID_ED25519" -> 19
      [] oid = "OID_SHA1" -> 21
      [] oid = "OID_SHA256" -> 22
      [] oid = "OID_SHA384" -> 23
      [] oid = "OID_SHA512" -> 24
      [] OTHER -> 0

asn1_known_oid(object) ==
    IF Len(object) = 1 /\ \E oid \in Oids : OidByte(oid) = object[1]
    THEN CHOOSE oid \in Oids : OidByte(oid) = object[1]
    ELSE "OID_UNKNOWN"

asn1_build_known_oid(oid) == <<ASN1_OID, 1, OidByte(oid)>>

asn1_wrap(type, content) == <<type, Len(content) % 256>> \o content

\* asn1_unwrap(): type and content of the first object of blob, and the bytes
\* after it; ASN1_INVALID if the blob holds no complete object
asn1_unwrap(blob) ==
    IF Len(blob) < 2 \/ blob[2] > Len(blob) - 2
    THEN [type |-> ASN1_INVALID, inner |-> <<>>, rest |-> <<>>]
    ELSE [type |-> blob[1], inner |-> SubSeq(blob, 3, 2 + blob[2]),
          rest |-> SubSeq(blob, 3 + blob[2], Len(blob))]

\* asn1_parse_algorithmIdentifier(): the OID of the algorithmIdentifier at the
\* start of blob and its parameters
asn1_parse_algorithmIdentifier(blob) ==
    LET seq == asn1_unwrap(blob)
        obj == asn1_unwrap(seq.inner)
    IN  IF seq.type = ASN1_SEQUENCE /\ obj.type = ASN1_OID
        THEN [oid |-> asn1_known_oid(obj.inner), parameters |-> obj.rest]
        ELSE [oid |-> "OID_UNKNOWN", parameters |-> <<>>]

asn1_algorithmIdentifier_params(oid, parameters) ==
    asn1_wrap(ASN1_SEQUENCE, asn1_build_known_oid(oid) \o parameters)

\* asn1_algorithmIdentifier(): some identifiers carry NULL parameters
asn1_algorithmIdentifier(oid) ==
    asn1_algorithmIdentifier_params(oid,
        IF oid \in {"OID_ECDSA_WITH_SHA256", "OID_ECDSA_WITH_SHA384",
                    "OID_ECDSA_WITH_SHA512", "OID_ED25519"}
        THEN <<>> ELSE asn1_wrap(ASN1_NULL, <<>>))

signature_scheme_to_oid(scheme) ==
    CASE scheme = "SIGN_RSA_EMSA_PKCS1_SHA1" -> "OID_SHA1_WITH_RSA"
      [] scheme = "SIGN_RSA_EMSA_PKCS1_SHA2_256" -> "OID_SHA256_WITH_RSA"
      [] scheme = "SIGN_RSA_EMSA_PKCS1_SHA2_384" -> "OID_SHA384_WITH_RSA"
      [] scheme = "SIGN_RSA_EMSA_PKCS1_SHA2_512" -> "OID_SHA512_WITH_RSA"
      [] scheme = "SIGN_RSA_EMSA_PSS" -> "OID_RSASSA_PSS"
      [] scheme = "SIGN_ECDSA_WITH_SHA256_DER" -> "OID_ECDSA_WITH_SHA256"
      [] scheme = "SIGN_ECDSA_WITH_SHA384_DER" -> "OID_ECDSA_WITH_SHA384"
      [] scheme = "SIGN_ECDSA_WITH_SHA512_DER" -> "OID_ECDSA_WITH_SHA512"
      [] scheme = "SIGN_ED25519" -> "OID_ED25519"
      [] OTHER -> "OID_UNKNOWN"

signature_scheme_from_oid(oid) ==
    CASE oid = "OID_SHA1_WITH_RSA" -> "SIGN_RSA_EMSA_PKCS1_SHA1"
      [] oid = "OID_SHA256_WITH_RSA" -> "SIGN_RSA_EMSA_PKCS1_SHA2_256"
      [] oid = "OID_SHA384_WITH_RSA" -> "SIGN_RSA_EMSA_PKCS1_SHA2_384"
      [] oid = "OID_SHA512_WITH_RSA" -> "SIGN_RSA_EMSA_PKCS1_SHA2_512"
      [] oid = "OID_RSASSA_PSS" -> "SIGN_RSA_EMSA_PSS"
      [] oid = "OID_ECDSA_WITH_SHA256" -> "SIGN_ECDSA_WITH_SHA256_DER"
      [] oid = "OID_ECDSA_WITH_SHA384" -> "SIGN_ECDSA_WITH_SHA384_DER"
      [] oid = "OID_ECDSA_WITH_SHA512" -> "SIGN_ECDSA_WITH_SHA512_DER"
      [] oid = "OID_ED25519" -> "SIGN_ED25519"
      [] OTHER -> "SIGN_UNKNOWN"

hasher_algorithm_to_oid(hash) ==
    CASE hash = "HASH_SHA1" -> "OID_SHA1"
      [] hash = "HASH_SHA256" -> "OID_SHA256"
      [] hash = "HASH_SHA384" -> "OID_SHA384"
      [] hash = "HASH_SHA512" -> "OID_SHA512"
      [] OTHER -> "OID_UNKNOWN"

hasher_algorithm_from_oid(oid) ==
    CASE oid = "OID_SHA1" -> "HASH_SHA1"
      [] oid = "OID_SHA256" -> "HASH_SHA256"
      [] oid = "OID_SHA384" -> "HASH_SHA384"
      [] oid = "OID_SHA512" -> "HASH_SHA512"
      [] OTHER -> "HASH_UNKNOWN"

\* rsa_pss_params_build(): the RSASSA-PSS-params of a parameter block, as a
\* sequence of the hash, the MGF1 hash and the salt length
rsa_pss_params_build(params) ==
    IF params = NoParams
       \/ hasher_algorithm_to_oid(params[1]) = "OID_UNKNOWN"
       \/ hasher_algorithm_to_oid(params[2]) = "OID_UNKNOWN"
       \/ params[3] < 0
    THEN [ok |-> FALSE, asn1 |-> <<>>]
    ELSE [ok |-> TRUE,
          asn1 |-> asn1_wrap(ASN1_SEQUENCE,
                      asn1_build_known_oid(hasher_algorithm_to_oid(params[1]))
                      \o asn1_build_known_oid(hasher_algorithm_to_oid(params[2]))
                      \o asn1_wrap(ASN1_INTEGER, <<params[3]>>))]

\* rsa_pss_params_parse()
rsa_pss_params_parse(asn1) ==
    LET seq == asn1_unwrap(asn1)
        h == asn1_unwrap(seq.inner)
        m == asn1_unwrap(h.rest)
        s == asn1_unwrap(m.rest)
        hash == hasher_algorithm_from_oid(asn1_known_oid(h.inner))
        mgf1 == hasher_algorithm_from_oid(asn1_known_oid(m.inner))
    IN  IF seq.type = ASN1_SEQUENCE /\ h.type = ASN1_OID /\ m.type = ASN1_OID
           /\ s.type = ASN1_INTEGER /\ Len(s.inner) = 1 /\ s.rest = <<>>
           /\ hash # "HASH_UNKNOWN" /\ mgf1 # "HASH_UNKNOWN"
        THEN [ok |-> TRUE, pss |-> <<hash, mgf1, s.inner[1]>>]
        ELSE [ok |-> FALSE, pss |-> NoParams]

(***************************************************************************)
(* parse_signature_auth_data() and build_signature_auth_data()             *)
(***************************************************************************)
parse_without_skip(auth_data, key_type) ==
    LET alg == asn1_parse_algorithmIdentifier(chunk_skip(auth_data, 1))
        scheme == signature_scheme_from_oid(alg.oid)
        pss == rsa_pss_params_parse(alg.parameters)
    IN  [ok |-> Len(auth_data) > 0 /\ scheme # "SIGN_UNKNOWN"
                  /\ (scheme = "SIGN_RSA_EMSA_PSS" => pss.ok),
         auth_data |-> chunk_skip(auth_data, 1),
         key_type |-> key_type_from_signature_scheme(scheme),
         params |-> Params(scheme, IF scheme = "SIGN_RSA_EMSA_PSS"
                                   THEN pss.pss ELSE NoParams)]

\* the result of parsing: success, the rest of the auth data, the key type
\* (unchanged on failure) and the parameters
parse_signature_auth_data(auth_data, key_type) ==
    IF Len(auth_data) = 0
    THEN [ok |-> FALSE, auth_data |-> auth_data, key_type |-> key_type,
          params |-> Params("SIGN_UNKNOWN", NoParams)]
    ELSE LET len == auth_data[1]
             data == chunk_skip(auth_data, 1)
             alg == asn1_parse_algorithmIdentifier(data)
             scheme == signature_scheme_from_oid(alg.oid)
             pss == rsa_pss_params_parse(alg.parameters)
         IN  CASE scheme = "SIGN_UNKNOWN"
                    -> [ok |-> FALSE, auth_data |-> data, key_type |-> key_type,
                        params |-> Params(scheme, NoParams)]
               [] scheme = "SIGN_RSA_EMSA_PSS" /\ ~pss.ok
                    -> [ok |-> FALSE, auth_data |-> data, key_type |-> key_type,
                        params |-> Params(scheme, NoParams)]
               [] OTHER
                    -> [ok |-> TRUE, auth_data |-> chunk_skip(data, len),
                        key_type |-> key_type_from_signature_scheme(scheme),
                        params |-> Params(scheme,
                                     IF scheme = "SIGN_RSA_EMSA_PSS"
                                     THEN pss.pss ELSE NoParams)]

\* the result of building: success and the auth data with the length byte and
\* the algorithmIdentifier in front of the signature
build_without_length(auth_data, params) ==
    LET oid == signature_scheme_to_oid(params.scheme)
        pss == rsa_pss_params_build(params.params)
    IN  IF oid = "OID_UNKNOWN"
           \/ (params.scheme = "SIGN_RSA_EMSA_PSS" /\ ~pss.ok)
        THEN [ok |-> FALSE, auth_data |-> auth_data]
        ELSE [ok |-> TRUE,
              auth_data |-> asn1_algorithmIdentifier_params(oid,
                                IF params.scheme = "SIGN_RSA_EMSA_PSS"
                                THEN pss.asn1 ELSE <<>>) \o auth_data]

build_signature_auth_data(auth_data, params) ==
    LET oid == signature_scheme_to_oid(params.scheme)
        pss == rsa_pss_params_build(params.params)
        parameters == IF params.scheme = "SIGN_RSA_EMSA_PSS"
                      THEN pss.asn1 ELSE <<>>
        data == IF Len(parameters) > 0
                THEN asn1_algorithmIdentifier_params(oid, parameters)
                ELSE asn1_algorithmIdentifier(oid)
    IN  IF oid = "OID_UNKNOWN"
           \/ (params.scheme = "SIGN_RSA_EMSA_PSS" /\ ~pss.ok)
        THEN [ok |-> FALSE, auth_data |-> auth_data]
        ELSE [ok |-> TRUE,
              auth_data |-> <<Len(data) % 256>> \o data \o auth_data]


(***************************************************************************)
(* The auth_cfg_t of a session: the list of its rules, in insertion order. *)
(***************************************************************************)
Rule(rule, value) == [rule |-> rule, value |-> value]

\* auth_cfg_t.add(): append a rule
auth_add(auth, rule, value) == Append(auth, Rule(rule, value))

\* auth_cfg_t.merge(other, copy = FALSE): add every rule of other
auth_merge(auth, other) == auth \o other

\* keymat_v2_t.hash_algorithm_supported(): hashes is what the peer announced
hash_algorithm_supported(hashes, hash) == hash \in hashes

(***************************************************************************)
(* select_signature_schemes()                                              *)
(***************************************************************************)
\* whether the local auth config holds a signature scheme constraint
have_config(auth) ==
    \E i \in 1..Len(auth) : auth[i].rule = "AUTH_RULE_IKE_SIGNATURE_SCHEME"

RECURSIVE config_loop(_, _, _, _)
config_loop(auth, i, key_type, hashes) ==
    IF i > Len(auth) THEN <<>>
    ELSE (IF auth[i].rule = "AUTH_RULE_IKE_SIGNATURE_SCHEME"
             /\ key_type = key_type_from_signature_scheme(auth[i].value.scheme)
             /\ hash_algorithm_supported(hashes,
                    hasher_from_signature_scheme(auth[i].value.scheme,
                                                 auth[i].value.params))
          THEN <<signature_params_clone(auth[i].value)>> ELSE <<>>)
            \o config_loop(auth, i + 1, key_type, hashes)

\* the first loop: the configured schemes that match the key type and whose
\* hash the peer supports, in configured order
schemes_from_config(hashes, auth, key_type) ==
    config_loop(auth, 1, key_type, hashes)

RECURSIVE key_loop(_, _, _, _)
key_loop(table, i, rsa_pss, hashes) ==
    IF i > Len(table) THEN <<>>
    ELSE (IF table[i].scheme = "SIGN_RSA_EMSA_PSS" /\ ~rsa_pss
          THEN <<>>
          ELSE IF hash_algorithm_supported(hashes,
                     hasher_from_signature_scheme(table[i].scheme,
                                                  table[i].params))
               THEN <<signature_params_clone(table[i])>>
               ELSE <<>>)
            \o key_loop(table, i + 1, rsa_pss, hashes)

key_loop_pss_not_skipped(hashes, key, rsa_pss) ==
    key_loop(signature_schemes_for_key(key.type, key.size), 1, TRUE, hashes)

\* the second loop: the schemes appropriate for the key that the peer
\* supports, without RSASSA-PSS unless the rsa_pss setting is enabled
schemes_for_key(hashes, key, rsa_pss) ==
    key_loop(signature_schemes_for_key(key.type, key.size), 1, rsa_pss, hashes)

\* lines 208-217, the search of the selected schemes for one scheme.
\* selected holds pointers to signature_params_t, and array_get() copies an
\* entry, a pointer, into contained, which is a signature_scheme_t: the
\* comparison (scheme == contained) does not read the scheme of the entry,
\* and where a pointer is wider than the enumeration the copy writes past
\* contained into the neighbouring variables.  The behaviour is undefined:
\* once the inner loop has run, found is whatever the build makes of it,
\* here the value of clobbered.  With nothing selected the inner loop does
\* not run and found stays FALSE.
found_in(selected, scheme, clobbered) ==
    IF Len(selected) = 0 THEN FALSE ELSE clobbered

\* the outcomes of the search, one for each of the two schemes tried
FoundOutcomes == [1..2 -> BOOLEAN]

RECURSIVE fallback_loop(_, _, _, _, _)
fallback_loop(schemes, i, selected, hashes, clobbered) ==
    IF i > Len(schemes) THEN selected
    ELSE fallback_loop(schemes, i + 1,
            IF ~found_in(selected, schemes[i], clobbered[i])
               /\ hash_algorithm_supported(hashes,
                      hasher_from_signature_scheme(schemes[i], NoParams))
            THEN Append(selected, Params(schemes[i], NoParams))
            ELSE selected,
            hashes, clobbered)

fallback_before_table(selected, hashes, clobbered) ==
    fallback_loop(<<"SIGN_RSA_EMSA_PKCS1_SHA2_384",
                    "SIGN_RSA_EMSA_PKCS1_SHA2_256">>, 1, <<>>, hashes,
                  clobbered) \o selected

\* for RSA also try SHA-384 and SHA-256
rsa_fallback(selected, hashes, clobbered) ==
    fallback_loop(<<"SIGN_RSA_EMSA_PKCS1_SHA2_384",
                    "SIGN_RSA_EMSA_PKCS1_SHA2_256">>, 1, selected, hashes,
                  clobbered)

select_with_fallback_after_config(hashes, auth, key, rsa_pss, clobbered) ==
    LET selected == IF have_config(auth)
                    THEN schemes_from_config(hashes, auth, key.type)
                    ELSE schemes_for_key(hashes, key, rsa_pss)
    IN  IF key.type = "KEY_RSA" THEN rsa_fallback(selected, hashes, clobbered)
        ELSE selected

select_signature_schemes(hashes, auth, key, rsa_pss, clobbered) ==
    IF have_config(auth)
    THEN schemes_from_config(hashes, auth, key.type)
    ELSE IF key.type = "KEY_RSA"
         THEN rsa_fallback(schemes_for_key(hashes, key, rsa_pss), hashes,
                           clobbered)
         ELSE schemes_for_key(hashes, key, rsa_pss)

(***************************************************************************)
(* The collaborators: keys, keymat, credential manager.                    *)
(***************************************************************************)
\* a key: its type, its size in bits and the number of its key pair
Key(type, size, id) == [type |-> type, size |-> size, id |-> id]

\* get_private() found no key
NoKey == Key("KEY_ANY", 0, 0)

\* the private keys the credential manager may hold for the local identity
PrivateKeys ==
    {Key("KEY_RSA", 2048, 1), Key("KEY_RSA", 4096, 1), Key("KEY_RSA", 8192, 1),
     Key("KEY_ECDSA", 256, 1), Key("KEY_ECDSA", 384, 1),
     Key("KEY_ECDSA", 521, 1), Key("KEY_ECDSA", 224, 1),
     Key("KEY_ED25519", 256, 1)}

\* the byte naming a scheme inside a signature
SchemeByte(scheme) ==
    CASE scheme = "SIGN_RSA_EMSA_PKCS1_SHA1" -> 1
      [] scheme = "SIGN_RSA_EMSA_PKCS1_SHA2_256" -> 2
      [] scheme = "SIGN_RSA_EMSA_PKCS1_SHA2_384" -> 3
      [] scheme = "SIGN_RSA_EMSA_PKCS1_SHA2_512" -> 4
      [] scheme = "SIGN_RSA_EMSA_PSS" -> 5
      [] scheme = "SIGN_ECDSA_WITH_SHA256_DER" -> 6
      [] scheme = "SIGN_ECDSA_WITH_SHA384_DER" -> 7
      [] scheme = "SIGN_ECDSA_WITH_SHA512_DER" -> 8
      [] scheme = "SIGN_ECDSA_256" -> 9
      [] scheme = "SIGN_ECDSA_384" -> 10
      [] scheme = "SIGN_ECDSA_521" -> 11
      [] scheme = "SIGN_ED25519" -> 12
      [] OTHER -> 0

\* the signature of key pair id over octets: it verifies under the same key
\* pair, scheme, parameters and octets only
Signature(id, scheme, params, octets) ==
    <<id, SchemeByte(scheme)>>
        \o (IF params = NoParams THEN <<0, 0, 0>>
            ELSE <<HashSize(params[1]), HashSize(params[2]), params[3]>>)
        \o octets

\* private_key_t.sign(): fails for a scheme the key cannot sign with
sign(private, cant_sign, scheme, params, octets) ==
    IF key_type_from_signature_scheme(scheme) = private.type
       /\ scheme \notin cant_sign
    THEN [ok |-> TRUE,
          signature |-> Signature(private.id, scheme, params, octets)]
    ELSE [ok |-> FALSE, signature |-> <<>>]

\* public_key_t.verify() of the public key of key pair id
verify(id, scheme, params, octets, signature) ==
    signature = Signature(id, scheme, params, octets)

\* the identities of the session: the builder signs for its own identity, the
\* verifier checks the identity the peer claims
get_my_id == 1
get_other_id == 1

\* the octets to sign or verify: the IKE_SA_INIT message, the nonce, the
\* identity and the reserved bytes of its payload
AuthOctets(ike_sa_init, nonce, id, reserved) ==
    ike_sa_init \o nonce \o <<id>> \o reserved

\* how the keymat treats the scheme list it is given
KeymatModes == {"keep", "fail", "prune", "reorder", "adjust"}

\* the scheme a keymat that changes the scheme puts first
KeymatScheme == Params("SIGN_RSA_EMSA_PKCS1_SHA2_512", NoParams)

Reverse(s) == [i \in 1..Len(s) |-> s[Len(s) + 1 - i]]

\* keymat_v2_t.get_auth_octets(): FALSE, or the octets and the list of
\* schemes, which the keymat may have changed
get_auth_octets(km, ike_sa_init, nonce, id, reserved, schemes) ==
    [ok |-> km # "fail",
     octets |-> IF km = "fail" THEN <<>>
                ELSE AuthOctets(ike_sa_init, nonce, id, reserved),
     schemes |-> CASE km = "prune" -> Tail(schemes)
                   [] km = "reorder" -> Reverse(schemes)
                   [] km = "adjust" -> <<KeymatScheme>> \o Tail(schemes)
                   [] OTHER -> schemes]

(***************************************************************************)
(* get_auth_octets_scheme()                                                *)
(***************************************************************************)
\* success, the octets, whether the keymat allocated them, and the scheme
\* left first in the list (the one given if there is none)
scheme_kept_as_given(t, km, id, scheme) ==
    LET r == get_auth_octets(km, t.ike_sa_init, t.nonce, id, t.reserved,
                             <<scheme>>)
    IN  [success |-> r.ok /\ Len(r.schemes) > 0,
         octets |-> r.octets,
         allocated |-> r.ok,
         scheme |-> scheme]

get_auth_octets_scheme(t, km, id, scheme) ==
    LET r == get_auth_octets(km, t.ike_sa_init, t.nonce, id, t.reserved,
                             <<scheme>>)
    IN  [success |-> r.ok /\ Len(r.schemes) > 0,
         octets |-> r.octets,
         allocated |-> r.ok,
         scheme |-> IF r.ok /\ Len(r.schemes) > 0 THEN r.schemes[1]
                    ELSE scheme]

(***************************************************************************)
(* sign_classic(): the scheme and auth method for a private key            *)
(***************************************************************************)
classic_any_ecdsa_size(type, size) ==
    CASE type = "KEY_RSA"
            -> [ok |-> TRUE, scheme |-> "SIGN_RSA_EMSA_PKCS1_SHA1",
                auth_method |-> "AUTH_RSA"]
      [] type = "KEY_ECDSA" /\ size <= 256
            -> [ok |-> TRUE, scheme |-> "SIGN_ECDSA_256",
                auth_method |-> "AUTH_ECDSA_256"]
      [] type = "KEY_ECDSA" /\ size = 384
            -> [ok |-> TRUE, scheme |-> "SIGN_ECDSA_384",
                auth_method |-> "AUTH_ECDSA_384"]
      [] type = "KEY_ECDSA"
            -> [ok |-> TRUE, scheme |-> "SIGN_ECDSA_521",
                auth_method |-> "AUTH_ECDSA_521"]
      [] OTHER
            -> [ok |-> FALSE, scheme |-> "SIGN_UNKNOWN",
                auth_method |-> "AUTH_NONE"]

classic_scheme(type, size) ==
    CASE type = "KEY_RSA"
            -> [ok |-> TRUE, scheme |-> "SIGN_RSA_EMSA_PKCS1_SHA1",
                auth_method |-> "AUTH_RSA"]
      [] type = "KEY_ECDSA" /\ size = 256
            -> [ok |-> TRUE, scheme |-> "SIGN_ECDSA_256",
                auth_method |-> "AUTH_ECDSA_256"]
      [] type = "KEY_ECDSA" /\ size = 384
            -> [ok |-> TRUE, scheme |-> "SIGN_ECDSA_384",
                auth_method |-> "AUTH_ECDSA_384"]
      [] type = "KEY_ECDSA" /\ size = 521
            -> [ok |-> TRUE, scheme |-> "SIGN_ECDSA_521",
                auth_method |-> "AUTH_ECDSA_521"]
      [] OTHER
            -> [ok |-> FALSE, scheme |-> "SIGN_UNKNOWN",
                auth_method |-> "AUTH_NONE"]

(***************************************************************************)
(* process(): decoding of the auth method                                  *)
(***************************************************************************)
\* the switch on the auth method: FALSE for INVALID_ARG, else the key type,
\* the parameters and the signature left in the auth data
decode_without_rsa_key_type(auth_method, auth_data) ==
    CASE auth_method \in {"AUTH_RSA", "AUTH_ECDSA_256", "AUTH_ECDSA_384",
                          "AUTH_ECDSA_521"}
            -> [ok |-> TRUE, auth_data |-> auth_data, key_type |-> "KEY_ECDSA",
                params |-> Params(
                    CASE auth_method = "AUTH_RSA" -> "SIGN_RSA_EMSA_PKCS1_SHA1"
                      [] auth_method = "AUTH_ECDSA_256" -> "SIGN_ECDSA_256"
                      [] auth_method = "AUTH_ECDSA_384" -> "SIGN_ECDSA_384"
                      [] OTHER -> "SIGN_ECDSA_521", NoParams)]
      [] auth_method = "AUTH_DS"
            -> parse_signature_auth_data(auth_data, "KEY_ECDSA")
      [] OTHER
            -> [ok |-> FALSE, auth_data |-> auth_data, key_type |-> "KEY_ECDSA",
                params |-> Params("SIGN_UNKNOWN", NoParams)]

decode_auth_method(auth_method, auth_data) ==
    CASE auth_method = "AUTH_RSA"
            -> [ok |-> TRUE, auth_data |-> auth_data, key_type |-> "KEY_RSA",
                params |-> Params("SIGN_RSA_EMSA_PKCS1_SHA1", NoParams)]
      [] auth_method = "AUTH_ECDSA_256"
            -> [ok |-> TRUE, auth_data |-> auth_data, key_type |-> "KEY_ECDSA",
                params |-> Params("SIGN_ECDSA_256", NoParams)]
      [] auth_method = "AUTH_ECDSA_384"
            -> [ok |-> TRUE, auth_data |-> auth_data, key_type |-> "KEY_ECDSA",
                params |-> Params("SIGN_ECDSA_384", NoParams)]
      [] auth_method = "AUTH_ECDSA_521"
            -> [ok |-> TRUE, auth_data |-> auth_data, key_type |-> "KEY_ECDSA",
                params |-> Params("SIGN_ECDSA_521", NoParams)]
      [] auth_method = "AUTH_DS"
            -> parse_signature_auth_data(auth_data, "KEY_ECDSA")
      [] OTHER
            -> [ok |-> FALSE, auth_data |-> auth_data, key_type |-> "KEY_ECDSA",
                params |-> Params("SIGN_UNKNOWN", NoParams)]

(***************************************************************************)
(* process(): the body of the loop over the public keys                    *)
(***************************************************************************)
status_kept_on_failure(status, ok) == IF ok THEN "SUCCESS" ELSE status

\* the status after one call of verify
verify_status(status, ok) == IF ok THEN "SUCCESS" ELSE "FAILED"

never_break(ok) == FALSE

\* whether the loop is left after one call of verify
verify_break(ok) == ok

auth_without_scheme(auth, ok, current_auth, params, online) ==
    IF ok
    THEN LET merged == auth_merge(auth, current_auth)
             class == auth_add(merged, "AUTH_RULE_AUTH_CLASS",
                               "AUTH_CLASS_PUBKEY")
         IN  IF ~online
             THEN auth_add(class, "AUTH_RULE_CERT_VALIDATION_SUSPENDED", TRUE)
             ELSE class
    ELSE auth

auth_merged_before_verify(auth, ok, current_auth, params, online) ==
    LET merged == auth_merge(auth, current_auth)
        class == auth_add(merged, "AUTH_RULE_AUTH_CLASS", "AUTH_CLASS_PUBKEY")
        scheme == auth_add(class, "AUTH_RULE_IKE_SIGNATURE_SCHEME",
                           signature_params_clone(params))
    IN  IF ~ok THEN merged
        ELSE IF ~online
             THEN auth_add(scheme, "AUTH_RULE_CERT_VALIDATION_SUSPENDED", TRUE)
             ELSE scheme

\* the auth config of the session after one call of verify
verify_auth(auth, ok, current_auth, params, online) ==
    IF ok
    THEN LET merged == auth_merge(auth, current_auth)
             class == auth_add(merged, "AUTH_RULE_AUTH_CLASS",
                               "AUTH_CLASS_PUBKEY")
             scheme == auth_add(class, "AUTH_RULE_IKE_SIGNATURE_SCHEME",
                                signature_params_clone(params))
         IN  IF ~online
             THEN auth_add(scheme, "AUTH_RULE_CERT_VALIDATION_SUSPENDED", TRUE)
             ELSE scheme
    ELSE auth

(***************************************************************************)
(* sign_signature_auth(): the body of the loop over the schemes            *)
(***************************************************************************)
sign_never_break(ok) == FALSE

\* whether the loop is left after one candidate: ok is whether sign() and
\* build_signature_auth_data() both succeeded
sign_break(ok) == ok

(***************************************************************************)
(* The constructors.                                                       *)
(***************************************************************************)
builder_with_process(received_nonce, sent_init, reserved) ==
    [role |-> "builder", build |-> "_build", process |-> "_process",
     ike_sa_init |-> sent_init, nonce |-> received_nonce,
     reserved |-> reserved]

builder_with_swapped_chunks(received_nonce, sent_init, reserved) ==
    [role |-> "builder", build |-> "_build", process |-> "return_failed",
     ike_sa_init |-> received_nonce, nonce |-> sent_init,
     reserved |-> reserved]

\* the authenticator of a builder: its methods and the data captured
pubkey_authenticator_create_builder(received_nonce, sent_init, reserved) ==
    [role |-> "builder", build |-> "_build", process |-> "return_failed",
     ike_sa_init |-> sent_init, nonce |-> received_nonce,
     reserved |-> reserved]

\* the authenticator of a verifier
pubkey_authenticator_create_verifier(sent_nonce, received_init, reserved) ==
    [role |-> "verifier", build |-> "return_failed", process |-> "_process",
     ike_sa_init |-> received_init, nonce |-> sent_nonce,
     reserved |-> reserved]

(***************************************************************************)
(* The state.                                                              *)
(***************************************************************************)
VARIABLES
    this,        \* the authenticator: methods, ike_sa_init, nonce, reserved
    pc,          \* where the call of build() or process() stands
    result,      \* the status the call returned, "NONE" before it returns
    message,     \* the payloads of the message given to the call
    my_auth,     \* the local auth config of the session
    other_auth,  \* the auth config of the session for the peer
    env,         \* what the call has read from the session and the stores
    loc,         \* the local variables of the call
    calls,       \* the calls made to keymat, keys and credential manager
    held         \* the buffers and lists allocated and not yet released

vars == <<this, pc, result, message, my_auth, other_auth, env, loc, calls, held>>

\* the peer auth config before authentication: the certificate received
InitialOtherAuth == <<Rule("AUTH_HELPER_SUBJECT_CERT", "cert")>>

\* the auth config the credential manager enumerates with public key k
CandidateAuth(k) == <<Rule("AUTH_RULE_SUBJECT_CERT", k)>>

\* the rules a local auth config is made of: signature scheme constraints,
\* one of them for a scheme without OID, and a rule of another kind
ConfigRules ==
    {Rule("AUTH_RULE_IKE_SIGNATURE_SCHEME",
          Params("SIGN_RSA_EMSA_PKCS1_SHA2_384", NoParams)),
     Rule("AUTH_RULE_IKE_SIGNATURE_SCHEME",
          Params("SIGN_RSA_EMSA_PSS", PssParams("HASH_SHA256"))),
     Rule("AUTH_RULE_IKE_SIGNATURE_SCHEME",
          Params("SIGN_RSA_EMSA_PSS", PssParams("HASH_SHA384"))),
     Rule("AUTH_RULE_IKE_SIGNATURE_SCHEME",
          Params("SIGN_ECDSA_WITH_SHA256_DER", NoParams)),
     Rule("AUTH_RULE_IKE_SIGNATURE_SCHEME",
          Params("SIGN_ECDSA_256", NoParams)),
     Rule("AUTH_RULE_AUTH_CLASS", "AUTH_CLASS_PUBKEY")}

LocalConfigs == SeqsUpTo(ConfigRules, MaxCfg)

\* the sets of hash algorithms a peer may have announced
HashSets ==
    {{}, {"HASH_SHA256"}, {"HASH_SHA1", "HASH_SHA384", "HASH_SHA512"},
     {"HASH_SHA256", "HASH_SHA384", "HASH_SHA512", "HASH_IDENTITY"}}

\* the sets of schemes a private key may fail to sign with
CantSign ==
    {{}, {"SIGN_RSA_EMSA_PSS", "SIGN_RSA_EMSA_PKCS1_SHA2_256",
          "SIGN_RSA_EMSA_PKCS1_SHA2_384", "SIGN_ECDSA_WITH_SHA256_DER",
          "SIGN_ECDSA_256"},
     Schemes}

\* the exchange: the nonce the verifying peer sent, the IKE_SA_INIT message
\* the building peer sent, the reserved bytes of the ID payload
ExchangeNonce == <<1>>
ExchangeInit == <<2>>
ExchangeReserved == <<0, 0, 0>>

\* the local variables of build() and process() before the call
InitLoc ==
    [status |-> "NONE", auth_method |-> "AUTH_NONE",
     auth_data |-> <<>>, key_type |-> "KEY_ECDSA",
     params |-> Params("SIGN_UNKNOWN", NoParams), octets |-> <<>>,
     schemes |-> <<>>, selected |-> <<>>, idx |-> 0]

InitCalls ==
    [octets |-> <<>>, enum |-> <<>>, fetched |-> <<>>, verified |-> <<>>,
     params |-> <<>>, signed |-> <<>>]

Init ==
    /\ this \in {pubkey_authenticator_create_builder(ExchangeNonce,
                      ExchangeInit, ExchangeReserved),
                  pubkey_authenticator_create_verifier(ExchangeNonce,
                      ExchangeInit, ExchangeReserved)}
    /\ pc = "idle"
    /\ result = "NONE"
    /\ message = <<>>
    /\ my_auth \in IF this.role = "builder" THEN LocalConfigs ELSE {<<>>}
    /\ other_auth = InitialOtherAuth
    /\ env = [private |-> NoKey, ext |-> FALSE, rsa_pss |-> FALSE,
              hashes |-> {}, km |-> "keep", online |-> TRUE, keys |-> <<>>,
              cant_sign |-> {}, found |-> [i \in 1..2 |-> FALSE],
              method |-> "none", given |-> <<>>, peer |-> FALSE,
              sender |-> [loc |-> InitLoc, calls |-> InitCalls,
                          km |-> "keep", held |-> {}]]
    /\ loc = InitLoc
    /\ calls = InitCalls
    /\ held = {}

(***************************************************************************)
(* The messages a verifier may be given.                                   *)
(***************************************************************************)
AuthPayload(auth_method, data) ==
    [type |-> "PLV2_AUTH", auth_method |-> auth_method, data |-> data]

\* message_t.get_payload(PLV2_AUTH): the position of the first AUTH payload,
\* 0 if there is none
get_payload(msg) ==
    IF \E i \in 1..Len(msg) : msg[i].type = "PLV2_AUTH"
    THEN CHOOSE i \in 1..Len(msg) :
            /\ msg[i].type = "PLV2_AUTH"
            /\ \A j \in 1..(i - 1) : msg[j].type # "PLV2_AUTH"
    ELSE 0

\* the octets the verifier computes, and octets of another exchange
GoodOctets(t) == AuthOctets(t.ike_sa_init, t.nonce, get_other_id, t.reserved)
BadOctets(t) ==
    AuthOctets(t.ike_sa_init, <<t.nonce[1] + 1>>, get_other_id, t.reserved)

\* signatures a payload may carry for the decoded parameters p: by key pair
\* 1 or 2, with the scheme of the keymat, or over other octets
Signatures(t, p) ==
    {Signature(k, p.scheme, p.params, GoodOctets(t)) : k \in {1, 2}}
        \cup {Signature(1, KeymatScheme.scheme, KeymatScheme.params,
                        GoodOctets(t)),
              Signature(1, p.scheme, p.params, BadOctets(t))}

LegacyMethods ==
    {"AUTH_RSA", "AUTH_ECDSA_256", "AUTH_ECDSA_384", "AUTH_ECDSA_521"}

\* the parameters sent in AUTH_DS payloads
WireParams ==
    {Params("SIGN_RSA_EMSA_PKCS1_SHA2_256", NoParams),
     Params("SIGN_RSA_EMSA_PSS", PssParams("HASH_SHA256")),
     Params("SIGN_ECDSA_WITH_SHA384_DER", NoParams)}

\* well-formed AUTH_DS data, and the same with the length byte 255, which
\* exceeds the data that follows it
DsData(t) ==
    UNION {LET data == build_signature_auth_data(sig, p).auth_data
           IN  {data, [data EXCEPT ![1] = 255]} :
              <<p, sig>> \in {<<q, s>> \in WireParams \X
                                 UNION {Signatures(t, q) : q \in WireParams} :
                                    s \in Signatures(t, q)}}

\* AUTH_DS data that is empty, holds the length byte only, is cut short,
\* names no signature scheme or lacks the RSASSA-PSS parameters
MalformedDsData ==
    {<<>>, <<7>>,
     SubSeq(build_signature_auth_data(<<>>,
               Params("SIGN_ED25519", NoParams)).auth_data, 1, 4),
     <<7>> \o asn1_algorithmIdentifier("OID_SHA256"),
     <<7>> \o asn1_algorithmIdentifier("OID_RSASSA_PSS")}

Messages(t) ==
    {<<>>}
        \cup {<<AuthPayload(m, s)>> :
                <<m, s>> \in {<<n, r>> \in LegacyMethods \X
                    UNION {Signatures(t, decode_auth_method(n, <<>>).params) :
                              n \in LegacyMethods} :
                       r \in Signatures(t, decode_auth_method(n, <<>>).params)}}
        \cup {<<AuthPayload(m, <<>>)>> : m \in {"AUTH_PSK", "AUTH_NULL"}}
        \cup {<<AuthPayload("AUTH_DS", d)>> : d \in DsData(t) \cup MalformedDsData}

(***************************************************************************)
(* process()                                                               *)
(***************************************************************************)
\* lines 451-486: get the AUTH payload and decode its auth method
ProcessStart ==
    /\ pc \in {"idle", "delivered"}
    /\ this.process = "_process"
    /\ \E msg \in IF pc = "delivered" THEN {message} ELSE Messages(this) :
        /\ message' = msg
        /\ env' = [env EXCEPT !.method = "process", !.given = msg]
        /\ IF get_payload(msg) = 0
           THEN /\ result' = "FAILED"
                /\ pc' = "done"
                /\ UNCHANGED <<loc, held>>
           ELSE LET payload == msg[get_payload(msg)]
                    d == decode_auth_method(payload.auth_method, payload.data)
                IN  /\ loc' = [loc EXCEPT !.status = "NOT_FOUND",
                                          !.auth_method = payload.auth_method,
                                          !.auth_data = d.auth_data,
                                          !.key_type = d.key_type,
                                          !.params = d.params]
                    /\ IF d.ok
                       THEN /\ pc' = "octets"
                            /\ held' = {"params"}
                            /\ UNCHANGED result
                       ELSE /\ result' = "INVALID_ARG"
                            /\ pc' = "done"
                            /\ UNCHANGED held
    /\ UNCHANGED <<this, my_auth, other_auth, calls>>

\* lines 487-496: get the octets and the scheme, create the enumerator
ProcessOctets ==
    /\ pc = "octets"
    /\ \E km \in KeymatModes :
        LET r == get_auth_octets_scheme(this, km, get_other_id, loc.params)
        IN  /\ calls' = [calls EXCEPT
                  !.octets = Append(@, <<this.ike_sa_init, this.nonce,
                                         this.reserved>>),
                  !.enum = IF r.success THEN Append(@, loc.key_type) ELSE @]
            /\ IF ~r.success
               THEN /\ result' = "FAILED"
                    /\ pc' = "done"
                    /\ env' = [env EXCEPT !.km = km]
                    /\ loc' = [loc EXCEPT !.octets = r.octets]
                    /\ held' = IF r.allocated THEN {"octets"} ELSE {}
               ELSE /\ \E online \in BOOLEAN,
                          keys \in InjSeqs(1..MaxKeys, MaxKeys) :
                            env' = [env EXCEPT !.km = km, !.online = online,
                                               !.keys = keys]
                    /\ loc' = [loc EXCEPT !.octets = r.octets,
                                          !.params = r.scheme, !.idx = 0]
                    /\ held' = {"params", "octets", "enumerator"}
                    /\ pc' = "verify"
                    /\ UNCHANGED result
    /\ UNCHANGED <<this, message, my_auth, other_auth>>

\* lines 497-521: one round of the loop over the public keys
ProcessVerify ==
    /\ pc = "verify"
    /\ IF loc.idx >= Len(env.keys)
       THEN /\ pc' = "return"
            /\ UNCHANGED <<loc, calls, other_auth>>
       ELSE LET public == env.keys[loc.idx + 1]
                ok == verify(public, loc.params.scheme, loc.params.params,
                             loc.octets, loc.auth_data)
            IN  /\ calls' = [calls EXCEPT !.fetched = Append(@, public),
                                          !.verified = Append(@, public),
                                          !.params = Append(@, loc.params)]
                /\ loc' = [loc EXCEPT !.idx = @ + 1,
                                      !.status = verify_status(@, ok)]
                /\ other_auth' = verify_auth(other_auth, ok,
                                     CandidateAuth(public), loc.params,
                                     env.online)
                /\ pc' = IF verify_break(ok) THEN "return" ELSE "verify"
    /\ UNCHANGED <<this, result, message, my_auth, env, held>>

\* lines 522-530: release the enumerator, the octets and the parameters
ProcessReturn ==
    /\ pc = "return"
    /\ held' = held \ {"enumerator", "octets", "params"}
    /\ result' = loc.status
    /\ pc' = "done"
    /\ UNCHANGED <<this, message, my_auth, other_auth, env, loc, calls>>

(***************************************************************************)
(* build()                                                                 *)
(***************************************************************************)
\* lines 403-414: get the private key and choose the kind of signature
BuildStart ==
    /\ pc = "idle"
    /\ this.build = "_build"
    /\ \E private \in PrivateKeys \cup {NoKey}, ext \in BOOLEAN :
        /\ env' = [env EXCEPT !.private = private, !.ext = ext,
                              !.method = "build", !.given = message]
        /\ IF private = NoKey
           THEN /\ result' = "NOT_FOUND"
                /\ pc' = "done"
                /\ UNCHANGED <<loc, held>>
           ELSE /\ held' = {"private"}
                /\ loc' = [loc EXCEPT !.auth_method =
                              IF ext THEN "AUTH_DS" ELSE "AUTH_NONE"]
                /\ pc' = IF ext THEN "sign_signature_auth" ELSE "sign_classic"
                /\ UNCHANGED result
    /\ UNCHANGED <<this, message, my_auth, other_auth, calls>>

\* sign_signature_auth(), lines 254-268: select the schemes, get the octets
SignSelect ==
    /\ pc = "sign_signature_auth"
    /\ \E hashes \in HashSets, rsa_pss \in BOOLEAN, found \in FoundOutcomes :
        LET schemes == select_signature_schemes(hashes, my_auth, env.private,
                                                rsa_pss, found)
        IN  IF Len(schemes) = 0
            THEN /\ env' = [env EXCEPT !.hashes = hashes, !.rsa_pss = rsa_pss,
                                       !.found = found]
                 /\ loc' = [loc EXCEPT !.status = "FAILED",
                                       !.selected = schemes]
                 /\ pc' = "build_finish"
                 /\ UNCHANGED <<calls, held>>
            ELSE \E km \in KeymatModes :
                 LET r == get_auth_octets(km, this.ike_sa_init, this.nonce,
                              get_my_id, this.reserved, schemes)
                 IN  /\ calls' = [calls EXCEPT !.octets = Append(@,
                            <<this.ike_sa_init, this.nonce, this.reserved>>)]
                     /\ IF r.ok
                        THEN /\ \E cant_sign \in CantSign :
                                  env' = [env EXCEPT !.hashes = hashes,
                                             !.rsa_pss = rsa_pss, !.km = km,
                                             !.found = found,
                                             !.cant_sign = cant_sign]
                             /\ loc' = [loc EXCEPT !.status = "FAILED",
                                           !.selected = schemes,
                                           !.schemes = r.schemes,
                                           !.octets = r.octets, !.idx = 0]
                             /\ held' = held \cup {"schemes", "octets",
                                                   "enumerator"}
                             /\ pc' = "sign_loop"
                        ELSE /\ env' = [env EXCEPT !.hashes = hashes,
                                             !.rsa_pss = rsa_pss, !.km = km,
                                             !.found = found]
                             /\ loc' = [loc EXCEPT !.status = "FAILED",
                                           !.selected = schemes,
                                           !.schemes = r.schemes]
                             /\ UNCHANGED held
                             /\ pc' = "build_finish"
    /\ UNCHANGED <<this, result, message, my_auth, other_auth>>

\* sign_signature_auth(), lines 269-293: one round of the loop over the
\* schemes; after the loop the list and the octets are released
SignLoop ==
    /\ pc = "sign_loop"
    /\ IF loc.idx >= Len(loc.schemes)
       THEN /\ pc' = "build_finish"
            /\ held' = held \ {"schemes", "octets", "enumerator"}
            /\ UNCHANGED <<loc, calls>>
       ELSE LET params == loc.schemes[loc.idx + 1]
                s == sign(env.private, env.cant_sign, params.scheme,
                          params.params, loc.octets)
                b == build_signature_auth_data(s.signature, params)
            IN  /\ calls' = [calls EXCEPT !.signed = Append(@, params)]
                /\ IF s.ok /\ b.ok
                   THEN /\ loc' = [loc EXCEPT !.idx = @ + 1,
                                      !.status = "SUCCESS",
                                      !.params = params,
                                      !.auth_data = b.auth_data]
                        /\ held' = (held \cup {"auth_data"})
                                      \ {"schemes", "octets", "enumerator"}
                        /\ pc' = IF sign_break(s.ok /\ b.ok)
                                 THEN "build_finish" ELSE "sign_loop"
                   ELSE /\ loc' = [loc EXCEPT !.idx = @ + 1,
                                      !.params = params,
                                      !.auth_data = IF s.ok THEN s.signature
                                                    ELSE @]
                        /\ held' = IF s.ok THEN held \cup {"auth_data"}
                                   ELSE held
                        /\ pc' = "sign_loop"
    /\ UNCHANGED <<this, result, message, my_auth, other_auth, env>>

\* sign_classic(), lines 339-389
SignClassic ==
    /\ pc = "sign_classic"
    /\ LET sel == classic_scheme(env.private.type, env.private.size)
           params == Params(sel.scheme, NoParams)
       IN  IF ~sel.ok
           THEN /\ loc' = [loc EXCEPT !.status = "FAILED"]
                /\ UNCHANGED <<env, calls, held>>
           ELSE \E km \in KeymatModes, cant_sign \in CantSign :
                LET r == get_auth_octets_scheme(this, km, get_my_id, params)
                    s == sign(env.private, cant_sign, r.scheme.scheme,
                              NoParams, r.octets)
                IN  /\ env' = [env EXCEPT !.km = km, !.cant_sign = cant_sign]
                    /\ calls' = [calls EXCEPT
                          !.octets = Append(@, <<this.ike_sa_init, this.nonce,
                                                 this.reserved>>),
                          !.signed = IF r.success
                                     THEN Append(@, Params(r.scheme.scheme,
                                                           NoParams))
                                     ELSE @]
                    /\ loc' = [loc EXCEPT
                          !.status = IF r.success /\ s.ok THEN "SUCCESS"
                                     ELSE "FAILED",
                          !.auth_method = sel.auth_method,
                          !.selected = <<params>>,
                          !.params = r.scheme,
                          !.octets = r.octets,
                          !.auth_data = IF r.success /\ s.ok THEN s.signature
                                        ELSE @]
                    /\ held' = IF r.success /\ s.ok
                               THEN held \cup {"auth_data"} ELSE held
    /\ pc' = "build_finish"
    /\ UNCHANGED <<this, result, message, my_auth, other_auth>>

payload_added_always(msg, status, auth_method, auth_data) ==
    Append(msg, AuthPayload(auth_method, auth_data))

\* lines 424-431: the message after build, given the status of the signing
add_payload(msg, status, auth_method, auth_data) ==
    IF status = "SUCCESS"
    THEN Append(msg, AuthPayload(auth_method, auth_data))
    ELSE msg

\* lines 422-432: release the private key, add the AUTH payload on success
BuildFinish ==
    /\ pc = "build_finish"
    /\ message' = add_payload(message, loc.status, loc.auth_method,
                              loc.auth_data)
    /\ held' = IF loc.status = "SUCCESS" THEN held \ {"private", "auth_data"}
               ELSE held \ {"private"}
    /\ result' = loc.status
    /\ pc' = "done"
    /\ UNCHANGED <<this, my_auth, other_auth, env, loc, calls>>

(***************************************************************************)
(* return_failed(), the method of the other role                           *)
(***************************************************************************)
\* the status return_failed() returns
return_failed == "FAILED"

\* lines 552 and 578: process() of a builder is given a message, build() of
\* a verifier the message under construction
ReturnFailed ==
    /\ pc = "idle"
    /\ \E method \in {"build", "process"} :
        /\ this[method] = "return_failed"
        /\ \E msg \in IF method = "process" THEN Messages(this)
                       ELSE {message} :
            /\ message' = msg
            /\ env' = [env EXCEPT !.method = method, !.given = msg]
    /\ result' = return_failed
    /\ pc' = "done"
    /\ UNCHANGED <<this, my_auth, other_auth, loc, calls, held>>

(***************************************************************************)
(* The exchange: the peer receives the message that was built.             *)
(***************************************************************************)
\* the peer of a builder without configured schemes, whose key signs with
\* every scheme, constructs its verifier
\* for the same exchange and is given the message; what the builder did is
\* kept in env.sender
Deliver ==
    /\ pc = "done"
    /\ this.role = "builder" /\ env.method = "build"
    /\ result = "SUCCESS"
    /\ my_auth = <<>> /\ env.cant_sign = {}
    /\ this' = pubkey_authenticator_create_verifier(ExchangeNonce,
                   ExchangeInit, ExchangeReserved)
    /\ env' = [env EXCEPT !.peer = TRUE, !.method = "none",
                          !.sender = [loc |-> loc, calls |-> calls,
                                      km |-> env.km, held |-> held]]
    /\ loc' = InitLoc
    /\ calls' = InitCalls
    /\ held' = {}
    /\ result' = "NONE"
    /\ pc' = "delivered"
    /\ UNCHANGED <<message, my_auth, other_auth>>

Next ==
    \/ ProcessStart
    \/ ProcessOctets
    \/ ProcessVerify
    \/ ProcessReturn
    \/ BuildStart
    \/ SignSelect
    \/ SignLoop
    \/ SignClassic
    \/ BuildFinish
    \/ ReturnFailed
    \/ Deliver

Spec == Init /\ [][Next]_vars

(***************************************************************************)
(* Properties of process().                                                *)
(***************************************************************************)
\* process() has created the enumerator of public keys
ReachedEnumeration == this.role = "verifier" /\ Len(calls.enum) > 0

\* the positions of the enumerated keys that verify the signature of the
\* payload under the scheme and the octets the keymat returned
VerifyingKeys ==
    {i \in 1..Len(env.keys) :
        verify(env.keys[i], loc.params.scheme, loc.params.params, loc.octets,
               loc.auth_data)}

\* the position of the first such key, or the number of keys if there is none
FirstVerifying ==
    IF VerifyingKeys = {} THEN Len(env.keys)
    ELSE CHOOSE i \in VerifyingKeys : \A j \in VerifyingKeys : i <= j

\* C1: a call of process that reached the enumeration of the public keys
\* returns NOT_FOUND iff no key was enumerated, FAILED iff there are keys and
\* none verifies, SUCCESS iff one of them verifies.
C1_ResultByKeys ==
    (pc = "done" /\ ReachedEnumeration) =>
        /\ result = "NOT_FOUND" <=> Len(env.keys) = 0
        /\ result = "FAILED" <=> (Len(env.keys) > 0 /\ VerifyingKeys = {})
        /\ result = "SUCCESS" <=> VerifyingKeys # {}

\* a call that succeeded with the second key after the first one failed
C1_Witness ==
    /\ pc = "done" /\ ReachedEnumeration
    /\ result = "SUCCESS"
    /\ Len(calls.verified) = 2

\* C2: the keys are fetched and verified in the order of the enumeration,
\* each once, every one before the last verified failed, and when the call
\* returns the verified keys are the keys up to the first that verifies.
C2_PrefixToFirstSuccess ==
    ReachedEnumeration =>
        /\ calls.fetched = calls.verified
        /\ Len(calls.verified) <= Len(env.keys)
        /\ calls.verified = SubSeq(env.keys, 1, Len(calls.verified))
        /\ \A i \in 1..(Len(calls.verified) - 1) : i \notin VerifyingKeys
        /\ pc = "done" => Len(calls.verified) = FirstVerifying

\* the second of three keys verified: the third was never fetched
C2_Witness ==
    /\ pc = "done" /\ ReachedEnumeration
    /\ Len(env.keys) = 3
    /\ calls.verified = SubSeq(env.keys, 1, 2)
    /\ 2 \in VerifyingKeys

\* C3: after SUCCESS the auth config of the peer is the one before the call,
\* then the auth config of the first verifying key, the public key auth
\* class, the scheme verify was called with, and the mark of suspended
\* certificate validation iff online validation was suspended.
C3_AuthOnSuccess ==
    (this.role = "verifier" /\ pc = "done" /\ result = "SUCCESS") =>
        other_auth =
            InitialOtherAuth
                \o CandidateAuth(env.keys[FirstVerifying])
                \o <<Rule("AUTH_RULE_AUTH_CLASS", "AUTH_CLASS_PUBKEY"),
                     Rule("AUTH_RULE_IKE_SIGNATURE_SCHEME", loc.params)>>
                \o (IF env.online THEN <<>>
                    ELSE <<Rule("AUTH_RULE_CERT_VALIDATION_SUSPENDED", TRUE)>>)

\* success with the second key, validation suspended, and a scheme the
\* keymat changed
C3_Witness ==
    /\ this.role = "verifier" /\ pc = "done" /\ result = "SUCCESS"
    /\ ~env.online
    /\ Len(calls.verified) = 2
    /\ env.km = "adjust"
    /\ loc.params = KeymatScheme

\* C4: unless process returns SUCCESS the auth config of the peer is what it
\* was before the call, during the call and after it.
C4_AuthUntouchedOnFailure ==
    (this.role = "verifier" /\ ~(pc \in {"return", "done"}
                                 /\ loc.status = "SUCCESS")) =>
        /\ other_auth = InitialOtherAuth
        /\ pc = "done" => result # "SUCCESS"

\* FAILED after every one of three keys failed
C4_Witness ==
    /\ this.role = "verifier" /\ pc = "done" /\ result = "FAILED"
    /\ Len(calls.verified) = 3

(***************************************************************************)
(* Properties of select_signature_schemes().                               *)
(***************************************************************************)
\* sign_signature_auth() has selected the schemes
Selected ==
    /\ this.role = "builder"
    /\ env.private # NoKey /\ env.ext
    /\ pc \in {"sign_loop", "build_finish", "done"}

IsSchemeRule(r) == r.rule = "AUTH_RULE_IKE_SIGNATURE_SCHEME"

\* the configured constraints
Configured == SelectSeq(my_auth, IsSchemeRule)

\* a configured constraint for the type of the private key whose hash the
\* peer supports
Usable(r) ==
    /\ key_type_from_signature_scheme(r.value.scheme) = env.private.type
    /\ hasher_from_signature_scheme(r.value.scheme, r.value.params)
            \in env.hashes

\* C5: with a signature scheme constraint in the local auth config, the
\* selected schemes are the configured ones for the type of the key whose
\* hash the peer supports, in configured order, and nothing else; if there
\* are none nothing is signed and build fails.
C5_ConfiguredOnly ==
    (Selected /\ Configured # <<>>) =>
        /\ Len(loc.selected) = Len(SelectSeq(Configured, Usable))
        /\ \A i \in 1..Len(loc.selected) :
              loc.selected[i] = SelectSeq(Configured, Usable)[i].value
        /\ loc.selected = <<>> =>
              /\ calls.signed = <<>>
              /\ loc.status = "FAILED"
              /\ pc = "done" => (result = "FAILED" /\ message = <<>>)

\* an RSA key, two constraints configured, one of them usable
C5_Witness ==
    /\ Selected /\ pc = "done"
    /\ env.private.type = "KEY_RSA"
    /\ Len(Configured) = 2
    /\ Len(loc.selected) = 1
    /\ "HASH_SHA512" \in env.hashes

\* C6: the selected schemes never hold two entries with the same scheme.
C6_NoDuplicateTags ==
    Selected =>
        \A i, j \in 1..Len(loc.selected) :
            i # j => loc.selected[i].scheme # loc.selected[j].scheme

\* C7: without constraints in the local auth config and with the rsa_pss
\* setting disabled, RSASSA-PSS is not among the selected schemes.
C7_NoPssUnlessEnabled ==
    (Selected /\ Configured = <<>> /\ ~env.rsa_pss) =>
        \A i \in 1..Len(loc.selected) :
            loc.selected[i].scheme # "SIGN_RSA_EMSA_PSS"

\* an RSA key of 2048 bits: the three PKCS#1 schemes, no PSS
C7_Witness ==
    /\ Selected
    /\ Configured = <<>> /\ ~env.rsa_pss
    /\ env.private = Key("KEY_RSA", 2048, 1)
    /\ Len(loc.selected) = 3

(***************************************************************************)
(* Properties of the decoding in process().                                *)
(***************************************************************************)
\* the AUTH payload of the message the verifier was given
Received == message[get_payload(message)]

\* C8 as claimed: an AUTH payload with an auth method that is neither RSA,
\* ECDSA-256/384/521 nor digital signature, or a digital signature whose
\* length byte exceeds the data after it, is answered with INVALID_ARG and
\* neither octets, keys nor verifications are requested.
C8_InvalidPayloadRejected ==
    (/\ this.role = "verifier" /\ pc # "idle" /\ get_payload(message) # 0
     /\ \/ Received.auth_method \notin LegacyMethods \cup {"AUTH_DS"}
        \/ /\ Received.auth_method = "AUTH_DS"
           /\ Len(Received.data) > 0
           /\ Received.data[1] > Len(Received.data) - 1) =>
        /\ pc = "done"
        /\ result = "INVALID_ARG"
        /\ calls.octets = <<>>
        /\ calls.enum = <<>>
        /\ calls.verified = <<>>

(***************************************************************************)
(* Properties of build().                                                  *)
(***************************************************************************)
\* sign_classic() has returned
Classic ==
    /\ this.role = "builder"
    /\ env.private # NoKey /\ ~env.ext
    /\ pc \in {"build_finish", "done"}

\* C9: sign_classic takes RSA/SHA-1 and AUTH_RSA for an RSA key of any
\* size, the ECDSA scheme and auth method of the size for an ECDSA key of
\* 256, 384 or 521 bits, and for any other key fails without asking for
\* octets or a signature.
C9_ClassicTable ==
    Classic =>
        LET k == env.private
            chosen == <<loc.selected, loc.auth_method>>
        IN  CASE k.type = "KEY_RSA"
                    -> chosen = <<<<Params("SIGN_RSA_EMSA_PKCS1_SHA1",
                                           NoParams)>>, "AUTH_RSA">>
              [] k.type = "KEY_ECDSA" /\ k.size = 256
                    -> chosen = <<<<Params("SIGN_ECDSA_256", NoParams)>>,
                                  "AUTH_ECDSA_256">>
              [] k.type = "KEY_ECDSA" /\ k.size = 384
                    -> chosen = <<<<Params("SIGN_ECDSA_384", NoParams)>>,
                                  "AUTH_ECDSA_384">>
              [] k.type = "KEY_ECDSA" /\ k.size = 521
                    -> chosen = <<<<Params("SIGN_ECDSA_521", NoParams)>>,
                                  "AUTH_ECDSA_521">>
              [] OTHER
                    -> /\ loc.selected = <<>>
                       /\ loc.status = "FAILED"
                       /\ calls.octets = <<>>
                       /\ calls.signed = <<>>
                       /\ pc = "done" => result = "FAILED"

\* an ECDSA key of 224 bits: build failed, nothing was asked for
C9_Witness ==
    /\ Classic /\ pc = "done"
    /\ env.private = Key("KEY_ECDSA", 224, 1)
    /\ result = "FAILED"

\* the AUTH payload build() added
Built == message[Len(message)]

\* C10: the AUTH payload of a successful build is, if the peer supports
\* signature authentication, AUTH_DS with the length byte, the
\* algorithmIdentifier of the scheme signed with and the signature, and
\* else the auth method of the key with the signature alone.
C10_FormatByTag ==
    (this.role = "builder" /\ pc = "done" /\ result = "SUCCESS") =>
        LET data == Built.data
            sig == Signature(env.private.id, loc.params.scheme,
                             IF env.ext THEN loc.params.params ELSE NoParams,
                             loc.octets)
            n == data[1]
            id == SubSeq(data, 2, 1 + n)
        IN  /\ Len(message) = 1
            /\ Built.type = "PLV2_AUTH"
            /\ IF env.ext
               THEN /\ Built.auth_method = "AUTH_DS"
                    /\ Len(data) = 1 + n + Len(sig)
                    /\ id[1] = ASN1_SEQUENCE /\ id[2] = n - 2
                    /\ asn1_parse_algorithmIdentifier(id).oid
                          = signature_scheme_to_oid(loc.params.scheme)
                    /\ SubSeq(data, 2 + n, Len(data)) = sig
               ELSE /\ Built.auth_method
                          = classic_scheme(env.private.type,
                                           env.private.size).auth_method
                    /\ Built.auth_method \in LegacyMethods
                    /\ data = sig

\* a digital signature with RSASSA-PSS, whose identifier has parameters
C10_Witness ==
    /\ this.role = "builder" /\ pc = "done" /\ result = "SUCCESS"
    /\ env.ext
    /\ loc.params.scheme = "SIGN_RSA_EMSA_PSS"

(***************************************************************************)
(* Properties of the codec of the AUTH_DS auth data.                       *)
(***************************************************************************)
\* build() has added an AUTH_DS payload
BuiltDs ==
    /\ this.role = "builder" /\ pc = "done" /\ result = "SUCCESS"
    /\ env.ext

\* C11: parse_signature_auth_data of the data build_signature_auth_data
\* made of a signature and parameters succeeds and gives the scheme, for
\* RSASSA-PSS the parameters, the key type of the scheme, and the signature
\* as the rest of the data.
C11_CodecRoundTrip ==
    BuiltDs =>
        LET sig == Signature(env.private.id, loc.params.scheme,
                             loc.params.params, loc.octets)
            built == build_signature_auth_data(sig, loc.params)
            parsed == parse_signature_auth_data(Built.data, "KEY_ECDSA")
        IN  /\ built.ok /\ built.auth_data = Built.data
            /\ parsed.ok
            /\ parsed.params = loc.params
            /\ parsed.key_type
                  = key_type_from_signature_scheme(loc.params.scheme)
            /\ parsed.key_type = env.private.type
            /\ parsed.auth_data = sig

\* the round trip of RSASSA-PSS parameters with SHA-384
C11_Witness ==
    /\ BuiltDs
    /\ loc.params = Params("SIGN_RSA_EMSA_PSS", PssParams("HASH_SHA384"))
    /\ parse_signature_auth_data(Built.data, "KEY_ECDSA").params.params
          = PssParams("HASH_SHA384")

(***************************************************************************)
(* Properties of an exchange: one peer builds, the other processes.        *)
(***************************************************************************)
\* process() of the peer has returned
Processed == this.role = "verifier" /\ env.peer /\ pc = "done"

\* the signature schemes recorded in the auth config of the session
Recorded == SelectSeq(other_auth, IsSchemeRule)

\* the builder has an RSA key of 2048 bits that signs with every scheme, no
\* configured schemes, RSASSA-PSS disabled and the signature authentication
\* extension; the keymats leave the schemes as they are; the verifier is
\* given the public key of the builder as a trusted key
Rsa2048Exchange ==
    /\ Processed
    /\ env.private = Key("KEY_RSA", 2048, 1) /\ env.cant_sign = {}
    /\ env.ext /\ my_auth = <<>> /\ ~env.rsa_pss
    /\ env.sender.km = "keep" /\ env.km = "keep"
    /\ \E i \in 1..Len(env.keys) : env.keys[i] = env.private.id

IsSupportedPkcs1(p) ==
    /\ p.scheme # "SIGN_RSA_EMSA_PSS"
    /\ hasher_from_signature_scheme(p.scheme, p.params) \in env.hashes

OtherRoleCalled ==
    \/ this.role = "builder" /\ env.method = "process"
    \/ this.role = "verifier" /\ env.method = "build"

\* C13: process() of a builder and build() of a verifier return FAILED at
\* once for every message, the message is left as it was given, and the
\* auth configs of the session and everything else stay as they were.
C13_OtherRoleFails ==
    [][(pc = "idle" /\ OtherRoleCalled') =>
            /\ pc' = "done"
            /\ result' = "FAILED"
            /\ message' = env'.given
            /\ UNCHANGED <<this, my_auth, other_auth, loc, calls, held>>]_vars

\* a builder was given a message with a well-formed AUTH payload to process
C13_Witness ==
    /\ OtherRoleCalled
    /\ this.role = "builder"
    /\ get_payload(message) = 1
    /\ message[1].auth_method = "AUTH_RSA"
    /\ result = "FAILED"

(***************************************************************************)
(* Properties of sign_signature_auth().                                    *)
(***************************************************************************)
\* sign_signature_auth() has selected the schemes and asked for the octets
SignPath ==
    /\ this.role = "builder" /\ env.method = "build"
    /\ env.private # NoKey /\ env.ext
    /\ pc \in {"sign_loop", "build_finish", "done"}

\* the private key signs with the candidate
Signs(p) ==
    sign(env.private, env.cant_sign, p.scheme, p.params, loc.octets).ok

\* the private key signs with the candidate and the signature is encoded
SignsAndEncodes(p) ==
    /\ Signs(p)
    /\ build_signature_auth_data(
           sign(env.private, env.cant_sign, p.scheme, p.params,
                loc.octets).signature, p).ok

\* the positions of the candidates returned by the keymat that sign
SigningCandidates == {i \in 1..Len(loc.schemes) : Signs(loc.schemes[i])}

\* the positions of those that sign and are encoded
UsableCandidates ==
    {i \in 1..Len(loc.schemes) : SignsAndEncodes(loc.schemes[i])}

\* the candidates tried are the first of the list the keymat returned
TriedInOrder ==
    /\ Len(calls.signed) <= Len(loc.schemes)
    /\ calls.signed = SubSeq(loc.schemes, 1, Len(calls.signed))
    /\ (loc.selected = <<>> \/ env.km = "fail") => calls.signed = <<>>

\* the loop has ended at the first candidate of the set, which is in the
\* payload, or after all candidates with FAILED if the set is empty
EndedAtFirstOf(set) ==
    pc \in {"build_finish", "done"} =>
        IF set = {} \/ env.km = "fail"
        THEN /\ loc.status = "FAILED"
             /\ env.km # "fail" => Len(calls.signed) = Len(loc.schemes)
             /\ pc = "done" => (result = "FAILED" /\ message = <<>>)
        ELSE LET first == CHOOSE i \in set : \A j \in set : i <= j
             IN  /\ Len(calls.signed) = first
                 /\ loc.status = "SUCCESS"
                 /\ pc = "done" =>
                       /\ result = "SUCCESS"
                       /\ parse_signature_auth_data(Built.data,
                              "KEY_ECDSA").params = loc.schemes[first]

\* C14 as claimed: the candidates are tried in the order the keymat
\* returned them, build stops at the first whose signing succeeds and puts
\* its scheme into the payload, and fails if there is no candidate or none
\* signs.
C14_StopsAtFirstSigned ==
    SignPath => (TriedInOrder /\ EndedAtFirstOf(SigningCandidates))

\* C14 as amended: the candidates are tried in the order the keymat
\* returned them, build stops at the first for which both signing and the
\* encoding of the scheme succeed and puts its scheme into the payload; a
\* candidate that signs but cannot be encoded is skipped like one that does
\* not sign; build fails if there is no candidate or none is usable.
C14_StopsAtFirstUsable ==
    SignPath => (TriedInOrder /\ EndedAtFirstOf(UsableCandidates))

\* the keymat reversed two configured schemes, the first of them signed but
\* has no OID, the second was put into the payload
C14_Witness ==
    /\ SignPath /\ pc = "done" /\ result = "SUCCESS"
    /\ env.km = "reorder"
    /\ Len(calls.signed) = 2
    /\ Signs(loc.schemes[1]) /\ ~SignsAndEncodes(loc.schemes[1])

(***************************************************************************)
(* Properties of the RSA fallback of select_signature_schemes().           *)
(***************************************************************************)
\* the schemes of the scheme table for the private key
TableCandidates == schemes_for_key(env.hashes, env.private, env.rsa_pss)

\* the list with the scheme appended if the list does not hold it and the
\* peer supports its hash
AppendedIfAbsent(list, scheme) ==
    IF /\ \A i \in 1..Len(list) : list[i].scheme # scheme
       /\ hasher_from_signature_scheme(scheme, NoParams) \in env.hashes
    THEN Append(list, Params(scheme, NoParams))
    ELSE list

\* C15: without constraints in the local auth config, the selected schemes
\* of an RSA key are the candidates of the scheme table followed by
\* PKCS1-SHA2-384 if and only if it is not among them and the peer supports
\* SHA-384, then by PKCS1-SHA2-256 under the same condition; for a key of
\* another type nothing follows the candidates of the table.
C15_FallbackIffAbsent ==
    (Selected /\ Configured = <<>>) =>
        loc.selected =
            IF env.private.type = "KEY_RSA"
            THEN AppendedIfAbsent(
                     AppendedIfAbsent(TableCandidates,
                                      "SIGN_RSA_EMSA_PKCS1_SHA2_384"),
                     "SIGN_RSA_EMSA_PKCS1_SHA2_256")
            ELSE TableCandidates

(***************************************************************************)
(* Properties of the resources of build() and process().                   *)
(***************************************************************************)
\* C16: when build or process has returned, everything the call acquired
\* (the list of schemes, the octets, the enumerator, the decoded parameters,
\* the signature, the private key) has been released, on every path.
C16_AllReleased == pc = "done" => held = {}

(***************************************************************************)
(* Properties of the two sides of one exchange.                            *)
(***************************************************************************)
\* what the keymat of the sender was given, and that of the receiver
SenderTriples == env.sender.calls.octets
ReceiverTriples == calls.octets

\* the IKE_SA_INIT message, nonce and reserved bytes of an authenticator
Captured(t) == <<t.ike_sa_init, t.nonce, t.reserved>>

\* C17: a builder made from the nonce its side received and the
\* IKE_SA_INIT message it sent, and the verifier the peer made from the
\* nonce it sent and the IKE_SA_INIT message it received, pass the same
\* (IKE_SA_INIT message, nonce, reserved bytes) to the computation of the
\* octets, and build and process leave what was captured as it was.
C17_SameTriple ==
    /\ Captured(this) = <<ExchangeInit, ExchangeNonce, ExchangeReserved>>
    /\ \A i \in 1..Len(calls.octets) : calls.octets[i] = Captured(this)
    /\ env.peer =>
          \A i \in 1..Len(SenderTriples), j \in 1..Len(ReceiverTriples) :
              SenderTriples[i] = ReceiverTriples[j]

\* the receiver has verified the signature the sender built
C17_Witness ==
    /\ env.peer /\ pc = "done" /\ result = "SUCCESS"
    /\ Len(SenderTriples) = 1 /\ Len(ReceiverTriples) = 1

(***************************************************************************)
(* Properties of the scheme process() verifies with.                       *)
(***************************************************************************)
\* process() has asked the keymat for the octets
OctetsRequested ==
    /\ this.role = "verifier" /\ env.method = "process"
    /\ calls.octets # <<>>

\* the parameters decoded from the AUTH payload
WireDecoded ==
    decode_auth_method(Received.auth_method, Received.data).params

\* the list the keymat leaves of the list holding the decoded parameters
KeymatLeft ==
    get_auth_octets(env.km, this.ike_sa_init, this.nonce, get_other_id,
                    this.reserved, <<WireDecoded>>).schemes

\* C18: every verification in process() is done with the scheme and
\* parameters the keymat left in the list of one scheme, and these are the
\* ones added to the auth config on SUCCESS, whatever the payload named; if
\* the keymat fails or leaves the list empty, process returns FAILED and
\* neither enumerates keys nor verifies.
C18_KeymatSchemeUsed ==
    OctetsRequested =>
        IF env.km = "fail" \/ KeymatLeft = <<>>
        THEN /\ pc = "done" /\ result = "FAILED"
             /\ calls.enum = <<>> /\ calls.fetched = <<>>
             /\ calls.verified = <<>>
             /\ other_auth = InitialOtherAuth
        ELSE /\ \A i \in 1..Len(calls.params) :
                    calls.params[i] = KeymatLeft[1]
             /\ Len(calls.params) = Len(calls.verified)
             /\ (pc = "done" /\ result = "SUCCESS") =>
                    /\ Len(Recorded) = 1
                    /\ Recorded[1].value = KeymatLeft[1]

\* the keymat replaced the scheme the payload named, and the signature
\* verified with the scheme of the keymat, which was recorded
C18_Witness ==
    /\ OctetsRequested /\ pc = "done" /\ result = "SUCCESS"
    /\ env.km = "adjust"
    /\ WireDecoded # KeymatLeft[1]
    /\ Recorded[1].value = KeymatScheme

(***************************************************************************)
(* Properties of the message build() leaves.                               *)
(***************************************************************************)
\* build() has returned
BuildReturned == env.method = "build" /\ pc = "done"

\* the AUTH payloads of a message
AuthPayloads(msg) == {i \in 1..Len(msg) : msg[i].type = "PLV2_AUTH"}

\* C19: build has added an AUTH payload to the message if and only if it
\* returns SUCCESS, and then exactly one, at the end; with every other
\* result the message is the one build was given.
C19_PayloadIffSuccess ==
    BuildReturned =>
        IF result = "SUCCESS"
        THEN /\ Len(message) = Len(env.given) + 1
             /\ SubSeq(message, 1, Len(env.given)) = env.given
             /\ AuthPayloads(message) = {Len(message)}
        ELSE message = env.given

\* a build that failed although a candidate was signed: the signature is
\* there, the payload is not
C19_Witness ==
    /\ BuildReturned /\ this.role = "builder"
    /\ result = "FAILED" /\ calls.signed # <<>> /\ loc.auth_data # <<>>
    /\ message = <<>>

(***************************************************************************)
(* Properties of the classic auth methods on both sides of an exchange.    *)
(***************************************************************************)
\* process() of the peer has decoded the payload sign_classic() built
ClassicDelivered ==
    /\ this.role = "verifier" /\ env.peer /\ ~env.ext
    /\ env.method = "process"

\* the scheme the sender signed with, and the one sign_classic() took for
\* the key before the keymat was asked
SignedWith == env.sender.calls.signed[Len(env.sender.calls.signed)]
ChosenForKey == env.sender.loc.selected[1]

\* the keymat of the sender, and that of the receiver, replaced the scheme
SenderAdjusted == env.sender.km = "adjust"
ReceiverAdjusted == calls.octets # <<>> /\ env.km = "adjust"

\* process() enumerates the public keys of the type of the private key
EnumeratesSignerType ==
    /\ loc.key_type = env.private.type
    /\ \A i \in 1..Len(calls.enum) : calls.enum[i] = env.private.type

\* C20 as claimed: the auth method sign_classic() puts into the payload is
\* decoded by process() to the scheme that was signed with and to the type
\* of the private key; the public keys of that type are enumerated and
\* verified with the scheme that was signed with.
C20_DecodesSigningScheme ==
    ClassicDelivered =>
        /\ pc = "octets" => loc.params = SignedWith
        /\ EnumeratesSignerType
        /\ \A i \in 1..Len(calls.params) : calls.params[i] = SignedWith

\* C20 as amended: the auth method is decoded to the scheme sign_classic()
\* took for the key, which is the scheme signed with unless the keymat of
\* the sender replaced it, and to the type of the private key; the public
\* keys of that type are enumerated, and verified with the scheme that was
\* signed with if neither keymat replaced the scheme.
C20_DecodesChosenScheme ==
    ClassicDelivered =>
        /\ pc = "octets" =>
              /\ loc.params = ChosenForKey
              /\ ~SenderAdjusted => loc.params = SignedWith
        /\ EnumeratesSignerType
        /\ (~SenderAdjusted /\ ~ReceiverAdjusted) =>
              \A i \in 1..Len(calls.params) : calls.params[i] = SignedWith

\* the signature of an RSA key was verified by the peer with the key type
\* and the scheme it was made with
C20_Witness ==
    /\ ClassicDelivered /\ pc = "done" /\ result = "SUCCESS"
    /\ env.private.type = "KEY_RSA"
    /\ calls.enum = <<"KEY_RSA">>
    /\ calls.params # <<>>
    /\ calls.params[1] = SignedWith

====
